---- MODULE Spec2Model ----
(***************************************************************************)
(* Model of src/code_analyzer.py: the File Selector (get_files_to_analyze), *)
(* the file reader (read_code_file), the Review Client                      *)
(* (analyze_code_with_cortex) and the driver (main).                        *)
(*                                                                          *)
(* Paths and file names are sequences of one-character strings, so that     *)
(* str.endswith, the substring test `in`, os.path.join and os.path.relpath  *)
(* are computed character by character.  Report texts are sequences of      *)
(* string chunks (a literal of the source is one chunk).                    *)
(***************************************************************************)
EXTENDS Integers, Sequences, FiniteSets, TLC

\* ------------------------------------------------------------------ bounds

\* At most this many regular files exist in the checkout.
MaxFiles == 3

\* ----------------------------------------------------------------- strings

SLASH == "/"

\* The lone surrogate os.walk yields for a file-name byte that is not UTF-8
\* (surrogateescape); sys.stdout cannot encode it, so print() raises.
SURROGATE == "udce9"

\* s[i..] (Python s[i-1:])
Drop(s, n) == SubSeq(s, n + 1, Len(s))

\* Python: sub in s
Contains(s, sub) ==
  \E i \in 0..(Len(s) - Len(sub)) : SubSeq(s, i + 1, i + Len(sub)) = sub

\* Python: s.endswith(suf)
EndsWith(s, suf) ==
  /\ Len(suf) <= Len(s)
  /\ SubSeq(s, Len(s) - Len(suf) + 1, Len(s)) = suf

\* Python: s.startswith(pre)
StartsWith(s, pre) ==
  /\ Len(pre) <= Len(s)
  /\ SubSeq(s, 1, Len(pre)) = pre

\* os.path.join(a, b) on POSIX
PathJoin(a, b) ==
  IF StartsWith(b, <<SLASH>>) THEN b
  ELSE IF a = <<>> \/ EndsWith(a, <<SLASH>>) THEN a \o b
  ELSE a \o <<SLASH>> \o b

\* [c for c in path.split('/') if c]
RECURSIVE SplitFrom(_, _, _)
SplitFrom(p, i, cur) ==
  IF i > Len(p) THEN (IF cur = <<>> THEN <<>> ELSE <<cur>>)
  ELSE IF p[i] = SLASH
       THEN (IF cur = <<>> THEN <<>> ELSE <<cur>>) \o SplitFrom(p, i + 1, <<>>)
       ELSE SplitFrom(p, i + 1, Append(cur, p[i]))

SplitPath(p) == SplitFrom(p, 1, <<>>)

\* '/'.join(parts)
RECURSIVE JoinSlash(_)
JoinSlash(parts) ==
  IF parts = <<>> THEN <<>>
  ELSE IF Len(parts) = 1 THEN parts[1]
  ELSE parts[1] \o <<SLASH>> \o JoinSlash(Tail(parts))

\* len(os.path.commonprefix([a, b])) on component lists
RECURSIVE CommonLen(_, _)
CommonLen(a, b) ==
  IF a = <<>> \/ b = <<>> \/ a[1] # b[1] THEN 0
  ELSE 1 + CommonLen(Tail(a), Tail(b))

\* Mutant: the absolute path is reported.
relpath_Absolute(path, start) == path

\* os.path.relpath(path, start) for absolute POSIX paths
relpath(path, start) ==
  LET sl == SplitPath(start)
      pl == SplitPath(path)
      i  == CommonLen(sl, pl)
      ups == [k \in 1..(Len(sl) - i) |-> <<".", ".">>]
      rel == ups \o Drop(pl, i)
  IN IF rel = <<>> THEN <<".">> ELSE JoinSlash(rel)

\* ------------------------------------------------------- program constants

EXT_PY    == <<".", "p", "y">>
EXT_SQL   == <<".", "s", "q", "l">>
EXT_JS    == <<".", "j", "s">>
EXT_TS    == <<".", "t", "s">>
EXT_JAVA  == <<".", "j", "a", "v", "a">>
EXT_CPP   == <<".", "c", "p", "p">>
EXT_CS    == <<".", "c", "s">>
EXT_GO    == <<".", "g", "o">>
EXT_RS    == <<".", "r", "s">>
EXT_PHP   == <<".", "p", "h", "p">>
EXT_RB    == <<".", "r", "b">>
EXT_SWIFT == <<".", "s", "w", "i", "f", "t">>
EXT_KT    == <<".", "k", "t">>
EXT_DART  == <<".", "d", "a", "r", "t">>
EXT_SH    == <<".", "s", "h">>

FILE_EXTENSIONS_TO_ANALYZE ==
  << EXT_PY, EXT_SQL, EXT_JS, EXT_TS, EXT_JAVA, EXT_CPP, EXT_CS, EXT_GO,
     EXT_RS, EXT_PHP, EXT_RB, EXT_SWIFT, EXT_KT, EXT_DART, EXT_SH >>

DOT_GIT      == <<".", "g", "i", "t">>
NODE_MODULES == <<"n", "o", "d", "e", "_", "m", "o", "d", "u", "l", "e", "s">>
PYCACHE      == <<"_", "_", "p", "y", "c", "a", "c", "h", "e", "_", "_">>
DOT_VENV     == <<".", "v", "e", "n", "v">>

\* ['/.git/', '/node_modules/', '/__pycache__/', '/.venv/']
EXCLUDE_DIRS ==
  << <<SLASH>> \o DOT_GIT \o <<SLASH>>,
     <<SLASH>> \o NODE_MODULES \o <<SLASH>>,
     <<SLASH>> \o PYCACHE \o <<SLASH>>,
     <<SLASH>> \o DOT_VENV \o <<SLASH>> >>

Range(s) == {s[i] : i \in 1..Len(s)}

\* ------------------------------------------------------------ file system

\* Directory and file names the checkout may hold.
D_SRC    == <<"s", "r", "c">>
D_GITHUB == <<".", "g", "i", "t", "h", "u", "b">>
D_M_PY   == <<"m", ".", "p", "y">>

N_A_PY   == <<"a", ".", "p", "y">>
N_B_TXT  == <<"b", ".", "t", "x", "t">>
N_C_SQL  == <<"c", ".", "s", "q", "l">>
N_D_PY   == <<"d", ".", "p", "y">>
N_E_PYC  == <<"e", ".", "p", "y", "c">>
N_F_SH   == <<"f", ".", "s", "h">>
N_G_JS   == <<"g", ".", "j", "s">>
N_H_GO   == <<"h", ".", "g", "o">>
N_I_PY   == <<"i", ".", "p", "y">>
N_J_RB   == <<"j", ".", "r", "b">>
N_BAD_PY == <<"c", "a", "f", SURROGATE, ".", "p", "y">>

\* The names, in one order a directory listing may give them.
NameOrder ==
  << N_A_PY, N_B_TXT, N_C_SQL, N_D_PY, N_E_PYC, N_F_SH, N_G_JS, N_H_GO,
     N_I_PY, N_J_RB, N_BAD_PY,
     D_SRC, DOT_GIT, D_GITHUB, D_M_PY, NODE_MODULES, PYCACHE, DOT_VENV >>

Reverse(s) == [i \in 1..Len(s) |-> s[Len(s) + 1 - i]]

\* os.scandir gives the names of a directory in arbitrary order: the orders
\* the model draws from.
ScandirOrders == {NameOrder, Reverse(NameOrder)}

\* A regular file: the directory that holds it (components below the
\* checkout root) and its name.
File(d, n) == [dir |-> d, name |-> n]

Universe ==
  { File(<<>>, N_A_PY),
    File(<<>>, N_B_TXT),
    File(<<>>, N_BAD_PY),
    File(<<D_SRC>>, N_C_SQL),
    File(<<D_SRC>>, N_E_PYC),
    File(<<D_SRC, DOT_GIT>>, N_D_PY),
    File(<<DOT_GIT>>, N_I_PY),
    File(<<D_GITHUB>>, N_F_SH),
    File(<<NODE_MODULES>>, N_G_JS),
    File(<<D_M_PY>>, N_H_GO),
    File(<<PYCACHE>>, N_A_PY),
    File(<<DOT_VENV, D_SRC>>, N_J_RB) }

FileSystems == {S \in SUBSET Universe : Cardinality(S) <= MaxFiles}

\* Working directories the program may be started in.
CWD_PLAIN == <<SLASH, "r">>
CWD_VENV  == <<SLASH>> \o DOT_VENV \o <<SLASH, "r">>
CWD_ROOT  == <<SLASH>>

Cwds == {CWD_PLAIN, CWD_VENV, CWD_ROOT}

\* --------------------------------------------------------------- optionals

\* Python None / a str value
None == [some |-> FALSE, val |-> <<>>]
Some(v) == [some |-> TRUE, val |-> v]

\* Mutant: the test `is not None`.
Truthy_NotNone(o) == o.some

\* Python truth value of an Optional[str]: None and '' are false.
Truthy(o) == o.some /\ o.val # <<>>

\* ------------------------------------------------------------ File Selector

\* The names of a set, in the order scandir lists them.
Listing(order, names) == SelectSeq(order, LAMBDA n : n \in names)

IsPrefixOf(p, s) == Len(p) <= Len(s) /\ SubSeq(s, 1, Len(p)) = p

\* Names of the regular files directly in directory d.
FilesIn(fs, d) == Listing(fs.order, {f.name : f \in {g \in fs.files : g.dir = d}})

\* Names of the subdirectories directly in directory d.
DirsIn(fs, d) ==
  Listing(fs.order, {f.dir[Len(d) + 1] :
             f \in {g \in fs.files : Len(g.dir) > Len(d) /\ IsPrefixOf(d, g.dir)}})

RECURSIVE Flatten(_)
Flatten(ss) == IF ss = <<>> THEN <<>> ELSE ss[1] \o Flatten(Tail(ss))

\* os.walk(top), top-down: (root, dirs, files) of top, then of each
\* subdirectory, whose root is os.path.join(top, name).
RECURSIVE os_walk(_, _, _)
os_walk(fs, top, d) ==
  LET dirs == DirsIn(fs, d)
  IN <<[root |-> top, dirs |-> dirs, files |-> FilesIn(fs, d)]>>
     \o Flatten([i \in 1..Len(dirs) |->
                   os_walk(fs, PathJoin(top, dirs[i]), Append(d, dirs[i]))])

\* any(file.endswith(ext) for ext in file_extensions)
HasExtension(file, file_extensions) ==
  \E i \in 1..Len(file_extensions) : EndsWith(file, file_extensions[i])

\* Mutant: the markers are matched without their slashes ('.git' for '/.git/').
IsExcluded_NoSlash(full_path) ==
  \E i \in 1..Len(EXCLUDE_DIRS) :
    Contains(full_path, SubSeq(EXCLUDE_DIRS[i], 2, Len(EXCLUDE_DIRS[i]) - 1))

\* any(exclude_dir in full_path for exclude_dir in [...])
IsExcluded(full_path) ==
  \E i \in 1..Len(EXCLUDE_DIRS) : Contains(full_path, EXCLUDE_DIRS[i])

\* The inner loop over the files of one directory.
SelectInDir(root, files, file_extensions) ==
  LET matching == SelectSeq(files, LAMBDA file : HasExtension(file, file_extensions))
      full == [i \in 1..Len(matching) |-> PathJoin(root, matching[i])]
  IN SelectSeq(full, LAMBDA full_path : ~IsExcluded(full_path))

get_files_to_analyze(fs, repo_path, file_extensions) ==
  LET w == os_walk(fs, repo_path, <<>>)
  IN Flatten([i \in 1..Len(w) |->
                SelectInDir(w[i].root, w[i].files, file_extensions)])

\* ------------------------------------------------------------- file reader

\* What open()/f.read() does for one file: the content, or an exception.
IO_OK(data) == [ok |-> TRUE, data |-> data]
IO_ERROR == [ok |-> FALSE, data |-> <<>>]

IOOutcomes == {IO_ERROR, IO_OK(<<>>), IO_OK(<<"x = 1">>)}

\* Mutant: the error text is returned as the content.
read_code_file_ErrorText(io) ==
  IF io.ok THEN Some(io.data) ELSE Some(<<"Error reading file">>)

\* read_code_file: the content, or None when open/read raised.
read_code_file(io) == IF io.ok THEN Some(io.data) ELSE None

\* ------------------------------------------------------------ Review Client

\* What session.sql(...).collect() does for one prompt: it raises an
\* Exception with a message, or returns rows whose RESPONSE column may be a
\* text, the empty string or NULL.
Raises(msg) == [kind |-> "raise", msg |-> msg, rows |-> <<>>]
Rows(rows) == [kind |-> "rows", msg |-> <<>>, rows |-> rows]
NoCall == [kind |-> "nocall", msg |-> <<>>, rows |-> <<>>]

MSG_DENIED == <<"002003 (42S02): ", "insufficient privileges">>

RemoteOutcomes ==
  { Raises(MSG_DENIED),
    Rows(<<>>),
    Rows(<<[RESPONSE |-> Some(<<"LGTM">>)]>>),
    Rows(<<[RESPONSE |-> Some(<<>>)]>>),
    Rows(<<[RESPONSE |-> None]>>) }

NO_RESPONSE == <<"Error: No response received from Cortex.">>

\* Mutant: the diagnostic leaves the error's message out.
Diagnostic_NoMessage(msg) ==
  <<"Error using Snowflake Cortex\nPlease ensure:\n",
    "1. You have USAGE privileges on CORTEX functions\n",
    "2. The selected model is available in your account\n",
    "3. Your Snowflake role has proper permissions and network access.">>

\* f"Error using Snowflake Cortex: {str(e)}\nPlease ensure: ..."
Diagnostic(msg) ==
  <<"Error using Snowflake Cortex: ">> \o msg
  \o <<"\nPlease ensure:\n1. You have USAGE privileges on CORTEX functions\n",
       "2. The selected model is available in your account\n",
       "3. Your Snowflake role has proper permissions and network access.">>

\* analyze_code_with_cortex, given what the remote call does.
analyze_code_with_cortex(remote) ==
  IF remote.kind = "raise" THEN Some(Diagnostic(remote.msg))
  ELSE IF Len(remote.rows) > 0 THEN remote.rows[1].RESPONSE
  ELSE Some(NO_RESPONSE)

\* ------------------------------------------------------------------ driver

VARIABLES
  pc,                    \* the driver's position in main
  cwd,                   \* os.getcwd()
  tree,                  \* the regular files below cwd
  scandir,               \* the order directory listings come in
  REPO_ROOT_PATH,        \* main's local
  file_extensions,       \* the extension list handed to the File Selector
  code_files,            \* main's local: the File Selector's result
  session,               \* main's local: 0 is None, n > 0 the n-th session
  idx,                   \* position of the for loop in code_files
  all_analysis_reports,  \* main's local
  stdout,                \* the summary reports printed
  connects,              \* calls of get_snowflake_session so far
  sql_calls,             \* calls of session.sql so far: session and file
  closes,                \* calls of session.close so far
  visits                 \* per loop iteration: the file and what the
                         \* environment did for it

\* The file system as the File Selector sees it.
FS == [files |-> tree, order |-> scandir]

vars ==
  << pc, cwd, tree, scandir, REPO_ROOT_PATH, file_extensions, code_files, session,
     idx, all_analysis_reports, stdout, connects, sql_calls, closes, visits >>

\* print(s) to a UTF-8 stdout raises UnicodeEncodeError on a lone surrogate.
Printable(s) == SURROGATE \notin Range(s)

Init ==
  /\ pc = "INIT"
  /\ cwd \in Cwds
  /\ tree \in FileSystems
  /\ scandir \in ScandirOrders
  /\ REPO_ROOT_PATH = <<>>
  /\ file_extensions = <<>>
  /\ code_files = <<>>
  /\ session = 0
  /\ idx = 1
  /\ all_analysis_reports = <<>>
  /\ stdout = <<>>
  /\ connects = 0
  /\ sql_calls = <<>>
  /\ closes = 0
  /\ visits = <<>>

\* main, lines 157-166: resolve the root and the extension list.
Start ==
  /\ pc = "INIT"
  /\ REPO_ROOT_PATH' = cwd
  /\ file_extensions' = FILE_EXTENSIONS_TO_ANALYZE
  /\ pc' = "SCANNING"
  /\ UNCHANGED << cwd, tree, scandir, code_files, session, idx, all_analysis_reports,
                  stdout, connects, sql_calls, closes, visits >>

\* Mutant: no early return on an empty selection.
Scan_NoEarlyReturn ==
  /\ pc = "SCANNING"
  /\ code_files' = get_files_to_analyze(FS, REPO_ROOT_PATH, file_extensions)
  /\ pc' = "CONNECTING"
  /\ UNCHANGED << cwd, tree, scandir, REPO_ROOT_PATH, file_extensions, session, idx,
                  all_analysis_reports, stdout, connects, sql_calls, closes,
                  visits >>

\* main, lines 169-172: select the files; return when there are none.
Scan ==
  /\ pc = "SCANNING"
  /\ code_files' = get_files_to_analyze(FS, REPO_ROOT_PATH, file_extensions)
  /\ pc' = IF code_files' = <<>> THEN "DONE" ELSE "CONNECTING"
  /\ UNCHANGED << cwd, tree, scandir, REPO_ROOT_PATH, file_extensions, session, idx,
                  all_analysis_reports, stdout, connects, sql_calls, closes,
                  visits >>

\* Mutant: the session is closed in a finally clause of the connect block.
Connect_CloseInFinally ==
  /\ pc = "CONNECTING"
  /\ connects' = connects + 1
  /\ \E connected \in BOOLEAN :
       IF connected
       THEN /\ session' = connects'
            /\ closes' = closes + 1
            /\ pc' = "ITERATING"
       ELSE /\ session' = 0
            /\ closes' = closes
            /\ pc' = "DONE"
  /\ all_analysis_reports' = <<>>
  /\ UNCHANGED << cwd, tree, scandir, REPO_ROOT_PATH, file_extensions, code_files, idx,
                  stdout, sql_calls, visits >>

\* Mutant: no return in the except branch.
Connect_NoReturn ==
  /\ pc = "CONNECTING"
  /\ connects' = connects + 1
  /\ \E connected \in BOOLEAN :
       session' = IF connected THEN connects' ELSE 0
  /\ pc' = "ITERATING"
  /\ all_analysis_reports' = <<>>
  /\ UNCHANGED << cwd, tree, scandir, REPO_ROOT_PATH, file_extensions, code_files, idx,
                  stdout, sql_calls, closes, visits >>

\* main, lines 175-185: get_snowflake_session returns a session or raises.
Connect ==
  /\ pc = "CONNECTING"
  /\ connects' = connects + 1
  /\ \E connected \in BOOLEAN :
       IF connected
       THEN /\ session' = connects'
            /\ pc' = "ITERATING"
       ELSE /\ session' = 0
            /\ pc' = "DONE"
  /\ all_analysis_reports' = <<>>
  /\ UNCHANGED << cwd, tree, scandir, REPO_ROOT_PATH, file_extensions, code_files, idx,
                  stdout, sql_calls, closes, visits >>

Visit(file_path, io, remote, report) ==
  [file_path |-> file_path, io |-> io, remote |-> remote, report |-> report]

\* main, lines 188-201: one iteration of the for loop.
ProcessFile ==
  /\ pc = "ITERATING"
  /\ idx <= Len(code_files)
  /\ LET file_path == code_files[idx]
     IN IF ~Printable(file_path)
        THEN \* line 189: print raises; the exception leaves main
             /\ pc' = "RAISED"
             /\ UNCHANGED << idx, all_analysis_reports, sql_calls, visits >>
        ELSE \E io \in IOOutcomes :
               LET code_content == read_code_file(io)
               IN IF Truthy(code_content)
                  THEN \E remote \in RemoteOutcomes :
                         LET report == analyze_code_with_cortex(remote)
                         IN /\ sql_calls' =
                                 Append(sql_calls,
                                        [session |-> session, file_path |-> file_path])
                            /\ all_analysis_reports' =
                                 IF Truthy(report)
                                 THEN Append(all_analysis_reports,
                                             [file |-> relpath(file_path, REPO_ROOT_PATH),
                                              analysis |-> report.val])
                                 ELSE all_analysis_reports
                            /\ visits' = Append(visits, Visit(file_path, io, remote, report))
                            /\ idx' = idx + 1
                            /\ pc' = "ITERATING"
                  ELSE /\ visits' = Append(visits, Visit(file_path, io, NoCall, None))
                       /\ idx' = idx + 1
                       /\ pc' = "ITERATING"
                       /\ UNCHANGED << all_analysis_reports, sql_calls >>
  /\ UNCHANGED << cwd, tree, scandir, REPO_ROOT_PATH, file_extensions, code_files,
                  session, stdout, connects, closes >>

\* main, line 188: the for loop is exhausted.
EndIteration ==
  /\ pc = "ITERATING"
  /\ idx > Len(code_files)
  /\ pc' = "AGGREGATING"
  /\ UNCHANGED << cwd, tree, scandir, REPO_ROOT_PATH, file_extensions, code_files,
                  session, idx, all_analysis_reports, stdout, connects,
                  sql_calls, closes, visits >>

SUMMARY_HEADER == <<"### Automated Code Review by Snowflake Cortex\n\n">>

\* The character ` of the source's literals.
BACKQUOTE == "backquote"

\* lines 208-209: one item's subsection
Subsection(item) ==
  <<"#### File: ", BACKQUOTE>> \o item.file \o <<BACKQUOTE, "\n\n">>
  \o item.analysis \o <<"\n\n---\n\n">>

\* lines 206-209
full_summary_report(reports) ==
  SUMMARY_HEADER \o Flatten([i \in 1..Len(reports) |-> Subsection(reports[i])])

\* main, lines 204-262: print the summary, close the session, return.
Aggregate ==
  /\ pc = "AGGREGATING"
  /\ stdout' = IF all_analysis_reports # <<>>
               THEN Append(stdout, full_summary_report(all_analysis_reports))
               ELSE stdout
  /\ closes' = IF session # 0 THEN closes + 1 ELSE closes
  /\ pc' = "DONE"
  /\ UNCHANGED << cwd, tree, scandir, REPO_ROOT_PATH, file_extensions, code_files,
                  session, idx, all_analysis_reports, connects, sql_calls,
                  visits >>

Next == Start \/ Scan \/ Connect \/ ProcessFile \/ EndIteration \/ Aggregate

Spec == Init /\ [][Next]_vars

\* ------------------------------------- the File Selector on its own inputs

\* Extension lists handed to get_files_to_analyze: main's list, shorter
\* ones, the empty list, and a list holding the empty extension.
ExtensionLists ==
  { FILE_EXTENSIONS_TO_ANALYZE, <<>>, <<EXT_PY>>, <<EXT_SQL, EXT_GO>>,
    <<N_E_PYC>>, << <<>> >>, <<<<"y">>>> }

SelInit ==
  /\ pc = "SELECT"
  /\ cwd \in Cwds
  /\ tree \in FileSystems
  /\ scandir \in ScandirOrders
  /\ REPO_ROOT_PATH = cwd
  /\ file_extensions \in ExtensionLists
  /\ code_files = <<>>
  /\ session = 0
  /\ idx = 1
  /\ all_analysis_reports = <<>>
  /\ stdout = <<>>
  /\ connects = 0
  /\ sql_calls = <<>>
  /\ closes = 0
  /\ visits = <<>>

\* One call of get_files_to_analyze(repo_path, file_extensions).
Select ==
  /\ pc = "SELECT"
  /\ code_files' = get_files_to_analyze(FS, REPO_ROOT_PATH, file_extensions)
  /\ pc' = "SELECTED"
  /\ UNCHANGED << cwd, tree, scandir, REPO_ROOT_PATH, file_extensions, session,
                  idx, all_analysis_reports, stdout, connects, sql_calls,
                  closes, visits >>

SelNext == Select

SelSpec == SelInit /\ [][SelNext]_vars

\* ------------------------------------------------------------------ claims

\* The path of a regular file of the checkout, from the root R.
AbsPath(R, f) == PathJoin(R, JoinSlash(f.dir \o <<f.name>>))

\* The excluded directory markers, as the specification lists them.
Markers ==
  { <<"/", ".", "g", "i", "t", "/">>,
    <<"/", "n", "o", "d", "e", "_", "m", "o", "d", "u", "l", "e", "s", "/">>,
    <<"/", "_", "_", "p", "y", "c", "a", "c", "h", "e", "_", "_", "/">>,
    <<"/", ".", "v", "e", "n", "v", "/">> }

Qualifies(R, E, f) ==
  /\ \E e \in E : EndsWith(f.name, e)
  /\ \A m \in Markers : ~Contains(AbsPath(R, f), m)

\* The path of a selected file relative to the checkout root, from the
\* file system's record of it.
RelOf(path) ==
  LET f == CHOOSE g \in tree : AbsPath(REPO_ROOT_PATH, g) = path
  IN JoinSlash(f.dir \o <<f.name>>)

RECURSIVE IsSubseq(_, _)
IsSubseq(a, b) ==
  IF a = <<>> THEN TRUE
  ELSE IF b = <<>> THEN FALSE
  ELSE IF a[1] = b[1] THEN IsSubseq(Tail(a), Tail(b))
  ELSE IsSubseq(a, Tail(b))

Last(sq) == sq[Len(sq)]

\* The run is over: main returned, or an exception left it.
Ended == pc \in {"DONE", "RAISED"}

\* The iteration phase is over and main went on.
AfterIteration == pc \in {"AGGREGATING", "DONE"} /\ session # 0

\* A visit that produced a report: non-empty content was read and the
\* Review Client returned a non-empty text for it.
Reported(v) ==
  /\ v.io.ok /\ v.io.data # <<>>
  /\ v.report.some /\ v.report.val # <<>>

ReportedVisits == SelectSeq(visits, Reported)

\* The files of the report sequence.
ReportFiles == [i \in 1..Len(all_analysis_reports) |-> all_analysis_reports[i].file]

\* The files visited so far, relative to the root.
VisitedFiles == [i \in 1..Len(visits) |-> RelOf(visits[i].file_path)]

\* This step is one loop iteration.
VisitStep == Len(visits') = Len(visits) + 1

\* C1 (as claimed): a run that acquired a session has released it exactly
\* once when it ends, whatever happened during the iteration.
C1_ReleasedOnceAtEnd ==
  (Ended /\ session # 0) => closes = 1

\* C2: when the File Selector returns an empty sequence, the run ends with no
\* call of get_snowflake_session, no remote call and no report.
C2_EmptySelectionEndsRun ==
  (pc \notin {"INIT", "SCANNING"} /\ code_files = <<>>) =>
    /\ pc = "DONE"
    /\ connects = 0 /\ session = 0
    /\ sql_calls = <<>>
    /\ all_analysis_reports = <<>> /\ stdout = <<>>

C2_Witness ==
  pc = "DONE" /\ code_files = <<>> /\ Cardinality(tree) = MaxFiles

\* The summary the claim describes: the fixed header, then per reported
\* visit, in visiting order, the subsection header naming the file and
\* exactly the text the Review Client returned.
ExpectedSummary ==
  <<"### Automated Code Review by Snowflake Cortex\n\n">>
  \o Flatten([i \in 1..Len(ReportedVisits) |->
               <<"#### File: ", BACKQUOTE>>
               \o RelOf(ReportedVisits[i].file_path)
               \o <<BACKQUOTE, "\n\n">>
               \o ReportedVisits[i].report.val
               \o <<"\n\n---\n\n">>])

\* C3: the printed summary has one subsection per processed file, in
\* discovery order, each header followed by exactly the text returned for
\* that file; at every point the report sequence names, in order, a
\* subsequence of the files visited so far, which are a prefix of the File
\* Selector's result.
C3_ReportInDiscoveryOrder ==
  /\ stdout # <<>> => stdout = <<ExpectedSummary>>
  /\ (pc = "DONE" /\ ReportedVisits # <<>>) => stdout # <<>>
  /\ ReportFiles = [i \in 1..Len(ReportedVisits) |-> RelOf(ReportedVisits[i].file_path)]
  /\ IsSubseq(ReportFiles, VisitedFiles)
  /\ [i \in 1..Len(visits) |-> visits[i].file_path] = SubSeq(code_files, 1, Len(visits))

C3_Witness ==
  /\ pc = "DONE" /\ stdout # <<>>
  /\ Len(visits) = 3 /\ Len(all_analysis_reports) = 2
  /\ ~Reported(visits[2])
  /\ SLASH \in Range(all_analysis_reports[2].file)
  /\ visits[1].remote.kind = "raise" /\ visits[3].remote.kind = "rows"

\* C4 (as claimed): after the iteration the report sequence holds one entry
\* for every selected file whose content was read successfully.
C4_OnePerReadFile ==
  AfterIteration =>
    Len(all_analysis_reports) = Cardinality({i \in 1..Len(visits) : visits[i].io.ok})

\* C4 (amended): after the iteration the report sequence holds exactly one
\* entry for every selected file whose content was read and is not empty and
\* whose review text is not empty, and no other; an entry, once appended, is
\* never changed or removed.
C4_OnePerReportedFile ==
  /\ [](AfterIteration =>
          /\ Len(visits) = Len(code_files)
          /\ Len(all_analysis_reports) = Len(ReportedVisits)
          /\ \A i \in 1..Len(ReportedVisits) :
               /\ all_analysis_reports[i].file = RelOf(ReportedVisits[i].file_path)
               /\ all_analysis_reports[i].analysis = ReportedVisits[i].report.val)
  /\ [][IsPrefixOf(all_analysis_reports, all_analysis_reports')]_vars

C4_Witness ==
  /\ AfterIteration
  /\ Len(visits) = 3 /\ Len(all_analysis_reports) = 1
  /\ visits[1].io.ok /\ visits[1].io.data = <<>>
  /\ visits[2].io.ok /\ visits[2].report.some /\ visits[2].report.val = <<>>
  /\ Reported(visits[3])

\* This step is a loop iteration whose remote call raised.
RemoteRaisedStep == VisitStep /\ Last(visits').remote.kind = "raise"

ReadFailedStep == VisitStep /\ ~Last(visits').io.ok

\* C6: when reading a file fails, no remote call is made for it, no report
\* is appended, the reports collected stay as they are and the loop goes on
\* with the next file.
C6_ReadFailureSkipsFile ==
  [][ReadFailedStep =>
       /\ sql_calls' = sql_calls
       /\ all_analysis_reports' = all_analysis_reports
       /\ Last(visits').remote = NoCall
       /\ pc' = "ITERATING"
       /\ idx' = idx + 1]_vars

C6_Witness ==
  /\ Len(visits) = 3 /\ Len(all_analysis_reports) = 2 /\ Len(sql_calls) = 2
  /\ ~visits[2].io.ok
  /\ Reported(visits[1]) /\ Reported(visits[3])

\* C7: when establishing the session fails, the run ends with no file read,
\* no remote call, no report, no summary and no session release.
C7_ConnectFailureEndsRun ==
  (connects > 0 /\ session = 0) =>
    /\ pc = "DONE"
    /\ visits = <<>>
    /\ sql_calls = <<>>
    /\ all_analysis_reports = <<>> /\ stdout = <<>>
    /\ closes = 0

C7_Witness ==
  pc = "DONE" /\ connects = 1 /\ session = 0 /\ Len(code_files) = 3

C9_EndsInDone ==
  /\ pc \in {"INIT", "SCANNING", "CONNECTING", "ITERATING", "AGGREGATING", "DONE"}
  /\ Ended => pc = "DONE"
  /\ (pc = "DONE" /\ closes = 0) => (code_files = <<>> \/ (connects > 0 /\ session = 0))

\* C10: every remote call is made on the one session of the run, after it
\* was acquired and before it is closed; at most one call is made per
\* selected file, one at a time, in discovery order.
C10_CallsOnOpenSession ==
  /\ [](/\ connects <= 1
        /\ \A i \in 1..Len(sql_calls) :
             sql_calls[i].session = session /\ session # 0
        /\ Cardinality(Range(code_files)) = Len(code_files)
        /\ IsSubseq([i \in 1..Len(sql_calls) |-> sql_calls[i].file_path],
                    SubSeq(code_files, 1, idx - 1)))
  /\ [][sql_calls' # sql_calls =>
          /\ connects = 1 /\ session # 0
          /\ closes = 0 /\ closes' = 0
          /\ sql_calls' = Append(sql_calls, [session |-> session,
                                             file_path |-> code_files[idx]])]_vars
  /\ [][closes > 0 => sql_calls' = sql_calls]_vars

C10_Witness ==
  /\ pc = "DONE" /\ closes = 1
  /\ Len(visits) = 3 /\ Len(sql_calls) = 2
  /\ visits[2].remote = NoCall

====
